---- MODULE Spec2Model ----
(***************************************************************************)
(* The timed interview session of the interviewee page: the Redux slice    *)
(* `candidate` (store/candidateSlice.ts) and the InterviewChat component   *)
(* that drives it (the second component of                                 *)
(* components/InterviewDetailView.tsx, lines 174-841).                      *)
(*                                                                         *)
(* React semantics kept by the model:                                      *)
(*  - every handler is a closure over the state of the render that created *)
(*    it.  A callback that outlives its render (the interval armed by      *)
(*    startTimer, a setTimeout, the continuation behind an await) keeps    *)
(*    reading that render's currentQuestion, isSubmitting, answerText and  *)
(*    candidate; only refs (timerRef, autoSubmitRef) and the store itself  *)
(*    are read live.  A closure is the record built by Closure.            *)
(*  - state updates made by one synchronous run of a handler are batched:  *)
(*    one action of the model is one such run.                             *)
(*  - a passive effect runs after the render whose dependencies changed;   *)
(*    a macrotask queued before the effect ran may run before it.          *)
(***************************************************************************)
EXTENDS Integers, Sequences, FiniteSets, TLC

VARIABLES
  candidate,             \* store: state.candidate (interviewProgress, finalScore)
  currentQuestion,       \* useState: id of the question on display, 0 = null
  answerText,            \* useState: staged text, 0 = ''
  timeLeft,              \* useState: seconds left
  isSubmitting,          \* useState
  interviewStarted,      \* useState
  isGeneratingQuestions, \* useState
  isScoringAnswers,      \* useState
  isVoiceRecording,      \* useState, set by VoiceRecorder.onRecordingStateChange
  questionStartTime,     \* useState: Date.now() when the countdown was armed
  answerTimesRef,        \* useRef: seconds taken per question index
  now,                   \* the clock, in seconds since the page was loaded
  timerRef,              \* useRef: the armed interval and the closure it calls
  autoSubmitRef,         \* useRef
  timeout0,              \* pending setTimeout(..., 0) of the interval callback
  timeout100,            \* pending setTimeout(..., 100) of the safety-net effect
  effectDue,             \* the safety-net effect has a run pending after a zero tick
  generating,            \* generateQuestions() call in flight, with its closure
  scoring,               \* scoreAnswers() calls in flight, with their closures
  scoringRequests,       \* history: scoring payloads sent in this session
  zeroAt,                \* history: the last countdown that reached zero
  reloads,               \* history: number of page reloads so far
  uploadedFile,          \* ResumeUpload useState: a resume is shown as uploaded
  savedInterviews,       \* localStorage: the saved interview of each candidate id
  autoSaved,             \* history: the last operation wrote a saved interview
  uploads,               \* history: number of resumes uploaded so far
  clears,                \* history: number of clearCandidate dispatches so far
  lastEvent,             \* history: the last operation
  savedIds,              \* localStorage: the list of saved interview ids
  activeTab,             \* IntervieweePage useState: the tab on display
  missingFields,         \* ResumeUpload useState: mandatory fields reported missing
  transcript,            \* VoiceRecorder useState: finalTranscript + transcript, 0 = ''
  stopTimeouts,          \* pending setTimeout(..., 500) of handleStopRecording
  interviewSessions,     \* backend: the in-memory session store
  fallback               \* the answers handed to the fallback score, and its results

vars == <<candidate, currentQuestion, answerText, timeLeft, isSubmitting,
          interviewStarted, isGeneratingQuestions, isScoringAnswers,
          isVoiceRecording, questionStartTime, answerTimesRef, now,
          timerRef, autoSubmitRef, timeout0, timeout100,
          effectDue, generating, scoring, scoringRequests, zeroAt, reloads,
          uploadedFile, savedInterviews, autoSaved, uploads, clears, lastEvent,
          savedIds, activeTab, missingFields, transcript, stopTimeouts,
          interviewSessions, fallback>>

\* the state of the interview page (store, component state, refs, timers)
pageVars == <<candidate, currentQuestion, answerText, timeLeft, isSubmitting,
              interviewStarted, isGeneratingQuestions, isScoringAnswers,
              isVoiceRecording, questionStartTime, answerTimesRef, now,
              timerRef, autoSubmitRef, timeout0, timeout100,
              effectDue, generating, scoring, scoringRequests, zeroAt, reloads,
              uploadedFile, autoSaved, uploads, clears,
              activeTab, missingFields, transcript, stopTimeouts>>

profileVars == <<activeTab, missingFields>>

voiceVars == <<transcript, stopTimeouts>>

\* the browser: the page and its localStorage
browserVars == <<pageVars, savedInterviews, savedIds, lastEvent>>

(***************************************************************************)
(* Bounds of the model.                                                    *)
(***************************************************************************)
MaxQuestions == 2
MaxAnswers == 3
MaxReloads == 1
MaxUploads == 2
MaxClears == 1
MaxFallbackAnswers == 2
MaxStoredAnswers == 2
MaxStopTimeouts == 2

(***************************************************************************)
(* Values.                                                                 *)
(***************************************************************************)
Null == -1
Sentinel == -2
SentinelLen == 33
TypedLen == 80
InputDifficulties == {"easy"}
InputMoments == {3, 20}
\* scoringResult.final_score?.overall_score in tenths of a point, Null when
\* the response has no final_score
ServiceScores == {Null, 0, 855, 1000}

\* Math.round(x ?? 0) of a value given in tenths
roundScore(x) == IF x = Null THEN 0 ELSE (x + 5) \div 10

QuestionLists ==
  UNION {[1..n -> InputDifficulties] : n \in 0..MaxQuestions}

Questions(ds) == [i \in 1..Len(ds) |-> [id |-> i, difficulty |-> ds[i]]]

getTimeLimit(difficulty) ==
  CASE difficulty = "easy" -> 20
    [] difficulty = "medium" -> 60
    [] difficulty = "hard" -> 120
    [] OTHER -> 60

TextLen(t) == IF t = 0 THEN 0 ELSE IF t = Sentinel THEN SentinelLen ELSE TypedLen

(***************************************************************************)
(* store/candidateSlice.ts: the slice state and its reducers.              *)
(***************************************************************************)
\* a mandatory field of the profile: empty, blank, or some text
FieldValues == {"", " ", "a"}

Profiles == [name : FieldValues, email : FieldValues, phone : FieldValues]

NoFields == [name |-> "", email |-> "", phone |-> ""]

CompleteProfile == [name |-> "a", email |-> "a", phone |-> "a"]

\* String.prototype.trim
trim(v) == IF v = " " THEN "" ELSE v

\* `profile` is true when state.profile is not null; `fields` holds the
\* mandatory fields of state.profile
initialState ==
  [id |-> 0, profile |-> FALSE, fields |-> NoFields, isProfileComplete |-> FALSE,
   questionIndex |-> 0, answers |-> <<>>, isComplete |-> FALSE,
   startedAt |-> FALSE, questionsDefined |-> FALSE,
   generatedQuestions |-> <<>>, finalScore |-> Null]

\* a reducer that calls the profile complete when any mandatory field is set
setProfile_anyField(state, payload) ==
  [state EXCEPT !.profile = TRUE, !.fields = payload,
                !.isProfileComplete =
                   (payload.name # "" \/ payload.email # "" \/ payload.phone # "")]

\* !!(name && email && phone): the empty string is the only falsy value
setProfile(state, payload) ==
  [state EXCEPT !.profile = TRUE, !.fields = payload,
                !.isProfileComplete =
                   (payload.name # "" /\ payload.email # "" /\ payload.phone # "")]

\* setCandidateId + setProfile + setResumeFile + setResumeData of one upload
\* whose mandatory fields were all extracted
setCandidate(state, candidateId) ==
  setProfile([state EXCEPT !.id = candidateId], CompleteProfile)

startInterview(state, questions) ==
  [state EXCEPT !.startedAt = TRUE, !.questionIndex = 0, !.answers = <<>>,
                !.isComplete = FALSE, !.questionsDefined = TRUE,
                !.generatedQuestions = questions]

\* a reducer that drops the questions answered so far
addAnswer_consuming(state, payload) ==
  [state EXCEPT !.answers = Append(@, payload),
                !.generatedQuestions = Tail(@)]

addAnswer(state, payload) ==
  [state EXCEPT !.answers = Append(@, payload)]

\* a reducer that advances past a question
nextQuestion_skipping(state) ==
  [state EXCEPT !.questionIndex = @ + 2]

nextQuestion(state) ==
  [state EXCEPT !.questionIndex = @ + 1]

completeInterview(state, score) ==
  [state EXCEPT !.isComplete = TRUE, !.finalScore = score]

clearCandidate(state) == initialState

(***************************************************************************)
(* utils/interviewStorage.ts and the auto-save effect of InterviewChat.    *)
(***************************************************************************)
NoRecord == [saved |-> FALSE, finalScore |-> Null, answers |-> <<>>]

createSavedInterviewFromState(candidateState) ==
  [saved |-> TRUE, finalScore |-> candidateState.finalScore,
   answers |-> candidateState.answers]

saveInterviewToStorage(store, interviewId, interview) ==
  [store EXCEPT ![interviewId] = interview]

\* a list update that does not look for the id
pushSavedId_always(ids, interviewId) == Append(ids, interviewId)

\* saveInterviewToStorage, the update of the list of saved ids
pushSavedId(ids, interviewId) ==
  IF \E i \in 1..Len(ids) : ids[i] = interviewId
  THEN ids
  ELSE Append(ids, interviewId)

\* the effect body, run with the candidate the render sees
autoSave(cand) ==
  IF cand.isComplete /\ cand.finalScore # Null /\ cand.id # 0 /\ cand.profile
  THEN /\ savedInterviews' = saveInterviewToStorage(savedInterviews, cand.id,
                                 createSavedInterviewFromState(cand))
       /\ savedIds' = pushSavedId(savedIds, cand.id)
       /\ autoSaved' = TRUE
  ELSE /\ UNCHANGED <<savedInterviews, savedIds>>
       /\ autoSaved' = FALSE

\* the effect depends on candidate: it runs after every operation that
\* changed the slice
autoSaveEffect ==
  IF candidate' # candidate
  THEN autoSave(candidate')
  ELSE /\ UNCHANGED <<savedInterviews, savedIds>>
       /\ autoSaved' = FALSE

(***************************************************************************)
(* The values a handler created by the current render closes over.         *)
(***************************************************************************)
Closure ==
  [cq |-> currentQuestion, isSub |-> isSubmitting, text |-> answerText,
   voice |-> isVoiceRecording, qst |-> questionStartTime, cand |-> candidate]

NoClosure ==
  [cq |-> 0, isSub |-> FALSE, text |-> 0, voice |-> FALSE, qst |-> 0,
   cand |-> initialState]

\* new Array(n).fill(0), and the empty array of a fresh ref: every slot reads
\* as 0 through `answerTimesRef.current[index] || 0`
NoTimes == [i \in 1..MaxQuestions |-> 0]

Idle == [on |-> FALSE, c |-> NoClosure]

Armed(c) == [on |-> TRUE, c |-> c]

ZeroNone == [on |-> FALSE, q |-> 0, index |-> 0, len |-> 0, both |-> FALSE, manual |-> FALSE, user |-> FALSE]

(***************************************************************************)
(* startTimer / stopTimer.  The interval created by startTimer calls the   *)
(* handleSubmitAnswer of the render whose handler called startTimer.       *)
(***************************************************************************)
startTimer(timeLimit, c) ==
  /\ timeLeft' = timeLimit
  /\ questionStartTime' = now
  /\ timerRef' = Armed(c)

stopTimer == timerRef' = Idle

(***************************************************************************)
(* handleSubmitAnswer, run with the closure c of the render that made it.  *)
(***************************************************************************)
Proceeds(c) ==
  ~ ( c.cq = 0
      \/ (~autoSubmitRef /\ c.isSub)
      \/ ~c.cand.questionsDefined )

finalAnswer(c) ==
  IF c.text # 0 THEN c.text ELSE IF autoSubmitRef THEN Sentinel ELSE 0

allAnswers(c) ==
  Append(c.cand.answers, [questionId |-> c.cq, answer |-> finalAnswer(c)])

\* Math.floor((Date.now() - questionStartTime) / 1000); the Math.min of the
\* next statement is not assigned to anything
timeTaken(c) == now - c.qst

scoringPayload(c, times) ==
  [index \in 1..Len(c.cand.generatedQuestions) |->
     [question_id |-> c.cand.generatedQuestions[index].id,
      answer |-> IF index <= Len(allAnswers(c))
                 THEN allAnswers(c)[index].answer ELSE 0,
      time_taken |-> times[index],
      max_time_allowed |-> getTimeLimit(c.cand.generatedQuestions[index].difficulty)]]

handleSubmitAnswer(c) ==
  IF ~Proceeds(c)
  THEN UNCHANGED <<candidate, currentQuestion, answerText, timeLeft,
                   isSubmitting, isScoringAnswers, timerRef, autoSubmitRef,
                   scoring, scoringRequests, questionStartTime, answerTimesRef>>
  ELSE
    LET currentIndex == c.cand.questionIndex
        totalQuestions == Len(c.cand.generatedQuestions)
        stored == nextQuestion(addAnswer(candidate,
                     [questionId |-> c.cq, answer |-> finalAnswer(c)]))
        times == [answerTimesRef EXCEPT ![currentIndex + 1] = timeTaken(c)]
    IN /\ candidate' = stored
       /\ answerTimesRef' = times
       /\ IF currentIndex + 1 >= totalQuestions
          THEN /\ stopTimer
               /\ currentQuestion' = 0
               /\ isScoringAnswers' = TRUE
               /\ isSubmitting' = TRUE
               /\ scoring' = Append(scoring,
                     [allAnswers |-> allAnswers(c), totalQuestions |-> totalQuestions])
               /\ scoringRequests' = Append(scoringRequests,
                     [interview_data |-> scoringPayload(c, times),
                      recorded |-> stored.answers])
               /\ UNCHANGED <<answerText, timeLeft, autoSubmitRef,
                              questionStartTime>>
          ELSE LET next == c.cand.generatedQuestions[currentIndex + 2]
               IN /\ currentQuestion' = next.id
                  /\ answerText' = 0
                  /\ startTimer(getTimeLimit(next.difficulty), c)
                  /\ autoSubmitRef' = FALSE
                  /\ isSubmitting' = FALSE
                  /\ UNCHANGED <<isScoringAnswers, scoring, scoringRequests>>

(***************************************************************************)
(* Fallback score of the catch branch of the scoring call.                 *)
(***************************************************************************)
RECURSIVE SumLen(_)
SumLen(as) == IF as = <<>> THEN 0 ELSE TextLen(Head(as).answer) + SumLen(Tail(as))

\* the larger of the two
Min_larger(a, b) == IF a < b THEN b ELSE a

Min(a, b) == IF a < b THEN a ELSE b

\* the same score without the Math.min(100, ...) of baseScore
FallbackScore_unclamped(as) ==
  LET sum == SumLen(as)
      n == Len(as)
  IN ((12 * sum + 5 * n) \div (10 * n)) + 20

\* Math.round(Math.min(100, Math.max(0, (averageAnswerLength / 50) * 60 + 20)))
FallbackScore(as) ==
  LET sum == SumLen(as)
      n == Len(as)
  IN Min(100, ((12 * sum + 5 * n) \div (10 * n)) + 20)

\* the inputs of the fallback score: lists of one or more answers
FallbackTexts == {0, Sentinel, 1}

FallbackLists ==
  UNION {[1..n -> [questionId : {1}, answer : FallbackTexts]] : n \in 1..MaxFallbackAnswers}

NoFallback == [a |-> <<>>, b |-> <<>>, scoreA |-> Null, scoreB |-> Null]

(***************************************************************************)
(* backend/src/server.ts: the questions and the session store.             *)
(***************************************************************************)
QUESTIONS ==
  <<[idx |-> 0, difficulty |-> "easy", timeLimit |-> 20],
    [idx |-> 1, difficulty |-> "easy", timeLimit |-> 20],
    [idx |-> 2, difficulty |-> "medium", timeLimit |-> 60],
    [idx |-> 3, difficulty |-> "medium", timeLimit |-> 60],
    [idx |-> 4, difficulty |-> "hard", timeLimit |-> 120],
    [idx |-> 5, difficulty |-> "hard", timeLimit |-> 120]>>

BackendCandidates == {1, 2}

\* parseInt(req.body.questionIndex): Null stands for NaN
RequestIndexes == {Null} \cup (0 .. Len(QUESTIONS))

\* parseInt(req.body.timeTaken): 0 stands for NaN and for 0
RequestTimes == {0, 5}

NoSession ==
  [exists |-> FALSE, currentQuestionIndex |-> 0, answers |-> <<>>,
   isComplete |-> FALSE]

(***************************************************************************)
(* What the render shows.                                                  *)
(***************************************************************************)
StartCardShown ==
  ~isScoringAnswers /\ ~candidate.isComplete /\ ~interviewStarted

QuestionShown ==
  /\ ~isScoringAnswers /\ ~candidate.isComplete /\ interviewStarted
  /\ currentQuestion # 0

SubmitEnabled ==
  /\ QuestionShown
  /\ ~isSubmitting
  /\ ~(answerText = 0 /\ timeLeft > 5 /\ ~isVoiceRecording)

\* the moments at which the user (or the recogniser) acts: at one of a few
\* values of the countdown, or at any time while no countdown runs
InputMoment == timerRef.on => timeLeft \in InputMoments

\* InterviewChat is mounted once a resume was uploaded and the profile saved
\* (IntervieweePage disables the Interview tab until then)
InitInterviewChat ==
  /\ currentQuestion = 0
  /\ answerText = 0
  /\ timeLeft = 0
  /\ isSubmitting = FALSE
  /\ interviewStarted = FALSE
  /\ isGeneratingQuestions = FALSE
  /\ isScoringAnswers = FALSE
  /\ isVoiceRecording = FALSE
  /\ questionStartTime = 0
  /\ answerTimesRef = NoTimes
  /\ now = 0
  /\ timerRef = Idle
  /\ autoSubmitRef = FALSE
  /\ timeout0 = Idle
  /\ timeout100 = Idle
  /\ effectDue = FALSE
  /\ generating = Idle
  /\ scoring = <<>>
  /\ scoringRequests = <<>>
  /\ zeroAt = ZeroNone
  /\ reloads = 0
  /\ autoSaved = FALSE
  /\ clears = 0
  /\ lastEvent = "init"
  /\ transcript = 0
  /\ stopTimeouts = <<>>

InitPage ==
  /\ InitInterviewChat
  /\ candidate = setCandidate(initialState, 1)
  /\ uploadedFile = TRUE
  /\ uploads = 1
  /\ activeTab = "interview"
  /\ missingFields = {}

InitStorage ==
  /\ savedInterviews = [i \in 1..MaxUploads |-> NoRecord]
  /\ savedIds = <<>>

InitServer == interviewSessions = [id \in BackendCandidates |-> NoSession]

Init ==
  /\ InitPage
  /\ InitStorage
  /\ InitServer
  /\ fallback = NoFallback

(***************************************************************************)
(* VoiceRecorder.  The text recognised while question q is on display is   *)
(* the value Spoken(q).                                                    *)
(***************************************************************************)
Spoken(q) == 10 + q

\* the moments of the countdown at which a recognition result arrives
HearMoments == {1, 3}

\* handleStopRecording: the 500 ms timeout closes over the transcript of
\* the render that called it.  A timeout set by a render that followed a
\* tick fires half a second after that tick.
handleStopRecording(atTick) ==
  Append(stopTimeouts, [text |-> transcript', atTick |-> atTick, age |-> 0])

older(timeouts) == [k \in 1..Len(timeouts) |-> [timeouts[k] EXCEPT !.age = 1]]

\* useEffect on [timeLeft, autoSubmitOnTimeout, finalTranscript, transcript,
\* handleStopRecording], in the run that follows a tick
timeLeftEffect(left) ==
  IF left <= 1 /\ transcript # 0
  THEN /\ Len(stopTimeouts) < MaxStopTimeouts
       /\ stopTimeouts' =
            Append(older(stopTimeouts),
                   [text |-> transcript, atTick |-> TRUE, age |-> 0])
  ELSE stopTimeouts' = older(stopTimeouts)

\* key={currentQuestion?.id}: another question on display, or none, replaces
\* the recorder by a fresh instance; the timeouts of the old one stay pending
remountVoiceRecorder ==
  /\ transcript' = IF currentQuestion' # currentQuestion THEN 0 ELSE transcript
  /\ UNCHANGED stopTimeouts

(***************************************************************************)
(* handleStartInterview: the click, then the three outcomes of the await.  *)
(***************************************************************************)
StartClick ==
  /\ activeTab = "interview"
  /\ StartCardShown
  /\ candidate.profile
  /\ ~isGeneratingQuestions
  /\ isGeneratingQuestions' = TRUE
  /\ generating' = Armed(Closure)
  /\ lastEvent' = "startClick"
  /\ zeroAt' = IF zeroAt.on THEN [zeroAt EXCEPT !.user = TRUE] ELSE zeroAt
  /\ UNCHANGED <<candidate, currentQuestion, answerText, timeLeft, isSubmitting,
                 interviewStarted, isScoringAnswers, isVoiceRecording, timerRef,
                 autoSubmitRef, timeout0, timeout100, effectDue, scoring,
                 scoringRequests>>
  /\ UNCHANGED <<questionStartTime, answerTimesRef, now>>
  /\ UNCHANGED <<reloads, uploadedFile, uploads, clears>>
  /\ UNCHANGED <<profileVars, voiceVars, interviewSessions, fallback>>
  /\ autoSaveEffect

GenerateFails ==
  /\ generating.on
  /\ isGeneratingQuestions' = FALSE
  /\ generating' = Idle
  /\ lastEvent' = "genFail"
  /\ UNCHANGED <<candidate, currentQuestion, answerText, timeLeft, isSubmitting,
                 interviewStarted, isScoringAnswers, isVoiceRecording, timerRef,
                 autoSubmitRef, timeout0, timeout100, effectDue, scoring,
                 scoringRequests, zeroAt>>
  /\ UNCHANGED <<questionStartTime, answerTimesRef, now>>
  /\ UNCHANGED <<reloads, uploadedFile, uploads, clears>>
  /\ UNCHANGED <<profileVars, voiceVars, interviewSessions, fallback>>
  /\ autoSaveEffect

\* response.questions = []: startInterview is dispatched, setInterviewStarted(true)
\* runs, then firstQuestion.difficulty throws and the catch reports the failure.
GenerateEmpty ==
  /\ generating.on
  /\ candidate' = startInterview(candidate, <<>>)
  /\ currentQuestion' = 0
  /\ interviewStarted' = TRUE
  /\ isGeneratingQuestions' = FALSE
  /\ generating' = Idle
  /\ scoringRequests' = <<>>
  /\ lastEvent' = "genEmpty"
  /\ UNCHANGED <<answerText, timeLeft, isSubmitting, isScoringAnswers,
                 isVoiceRecording, timerRef, autoSubmitRef, timeout0, timeout100,
                 effectDue, scoring, zeroAt>>
  /\ answerTimesRef' = NoTimes
  /\ UNCHANGED <<questionStartTime, now>>
  /\ UNCHANGED <<reloads, uploadedFile, uploads, clears>>
  /\ UNCHANGED <<profileVars, voiceVars, interviewSessions, fallback>>
  /\ autoSaveEffect

GenerateQuestions ==
  /\ generating.on
  /\ \E ds \in QuestionLists :
       /\ Len(ds) >= 1
       /\ candidate' = startInterview(candidate, Questions(ds))
       /\ currentQuestion' = Questions(ds)[1].id
       /\ startTimer(getTimeLimit(ds[1]), generating.c)
  /\ interviewStarted' = TRUE
  /\ isGeneratingQuestions' = FALSE
  /\ generating' = Idle
  /\ scoringRequests' = <<>>
  /\ lastEvent' = "genOk"
  /\ UNCHANGED <<answerText, isSubmitting, isScoringAnswers, isVoiceRecording,
                 autoSubmitRef, timeout0, timeout100, effectDue, scoring, zeroAt>>
  /\ answerTimesRef' = NoTimes
  /\ UNCHANGED now
  /\ UNCHANGED <<reloads, uploadedFile, uploads, clears>>
  /\ UNCHANGED <<profileVars, voiceVars, interviewSessions, fallback>>
  /\ autoSaveEffect

(***************************************************************************)
(* The interval callback of startTimer: one tick per second.  A timeout    *)
(* of 0 or 100 ms and a pending effect run before the next tick.           *)
(***************************************************************************)
Tick ==
  /\ \A k \in 1..Len(stopTimeouts) :
       ~stopTimeouts[k].atTick /\ stopTimeouts[k].age = 0
  /\ timerRef.on
  /\ ~timeout0.on /\ ~timeout100.on /\ ~effectDue
  /\ Len(candidate.answers) < MaxAnswers
  /\ IF timeLeft <= 1
     THEN /\ autoSubmitRef' = TRUE
          /\ timeout0' = Armed(timerRef.c)
          /\ timerRef' = Idle
          /\ timeLeft' = 0
          /\ effectDue' = TRUE
          /\ zeroAt' = [on |-> TRUE, q |-> currentQuestion,
                        index |-> candidate.questionIndex,
                        len |-> Len(candidate.answers),
                        both |-> FALSE, manual |-> FALSE, user |-> FALSE]
          /\ lastEvent' = "zero"
     ELSE /\ timeLeft' = timeLeft - 1
          /\ zeroAt' = ZeroNone
          /\ lastEvent' = "tick"
          /\ UNCHANGED <<autoSubmitRef, timeout0, timerRef, effectDue>>
  /\ UNCHANGED <<candidate, currentQuestion, answerText, isSubmitting,
                 interviewStarted, isGeneratingQuestions, isScoringAnswers,
                 isVoiceRecording, timeout100, generating, scoring,
                 scoringRequests>>
  /\ now' = now + 1
  /\ UNCHANGED <<questionStartTime, answerTimesRef>>
  /\ UNCHANGED <<reloads, uploadedFile, uploads, clears>>
  /\ timeLeftEffect(timeLeft')
  /\ UNCHANGED <<profileVars, transcript, interviewSessions, fallback>>
  /\ autoSaveEffect

\* the deferred handleSubmitAnswer() of the interval callback
Fire0 ==
  /\ timeout0.on
  /\ handleSubmitAnswer(timeout0.c)
  /\ timeout0' = Idle
  /\ lastEvent' = IF Proceeds(timeout0.c) THEN "auto0" ELSE "auto0Ignored"
  /\ UNCHANGED <<interviewStarted, isGeneratingQuestions, isVoiceRecording,
                 timeout100, effectDue, generating, zeroAt>>
  /\ UNCHANGED now
  /\ UNCHANGED <<reloads, uploadedFile, uploads, clears>>
  /\ remountVoiceRecorder
  /\ UNCHANGED <<profileVars, interviewSessions, fallback>>
  /\ autoSaveEffect

\* useEffect on [timeLeft, currentQuestion, isSubmitting]: the safety net.
\* The effect also runs after every other change of its dependencies; its
\* condition is false in all of those runs (timeLeft > 0, or no question on
\* display), so only the run that follows a zero tick is a step.
SafetyNetEffect ==
  /\ effectDue
  /\ effectDue' = FALSE
  /\ IF timeLeft = 0 /\ currentQuestion # 0 /\ ~isSubmitting /\ ~timerRef.on
     THEN /\ autoSubmitRef' = TRUE
          /\ timeout100' = Armed(Closure)
          /\ zeroAt' = IF zeroAt.on THEN [zeroAt EXCEPT !.both = TRUE] ELSE zeroAt
     ELSE UNCHANGED <<autoSubmitRef, timeout100, zeroAt>>
  /\ lastEvent' = "effect"
  /\ UNCHANGED <<candidate, currentQuestion, answerText, timeLeft, isSubmitting,
                 interviewStarted, isGeneratingQuestions, isScoringAnswers,
                 isVoiceRecording, timerRef, timeout0, generating, scoring,
                 scoringRequests>>
  /\ UNCHANGED <<questionStartTime, answerTimesRef, now>>
  /\ UNCHANGED <<reloads, uploadedFile, uploads, clears>>
  /\ UNCHANGED <<profileVars, voiceVars, interviewSessions, fallback>>
  /\ autoSaveEffect

\* the deferred handleSubmitAnswer() of the safety net
Fire100 ==
  /\ timeout100.on
  /\ ~timeout0.on
  /\ handleSubmitAnswer(timeout100.c)
  /\ timeout100' = Idle
  /\ lastEvent' = IF Proceeds(timeout100.c) THEN "auto100" ELSE "auto100Ignored"
  /\ UNCHANGED <<interviewStarted, isGeneratingQuestions, isVoiceRecording,
                 timeout0, effectDue, generating, zeroAt>>
  /\ UNCHANGED now
  /\ UNCHANGED <<reloads, uploadedFile, uploads, clears>>
  /\ remountVoiceRecorder
  /\ UNCHANGED <<profileVars, interviewSessions, fallback>>
  /\ autoSaveEffect

(***************************************************************************)
(* The user: typing, the Submit button, the voice recorder, a page reload. *)
(***************************************************************************)
\* TextArea onChange: text typed while question q is shown is the value q
TypeAnswer ==
  /\ InputMoment
  /\ QuestionShown
  /\ ~isSubmitting
  /\ \E t \in {0, currentQuestion} :
       /\ t # answerText
       /\ answerText' = t
  /\ lastEvent' = "type"
  /\ zeroAt' = IF zeroAt.on THEN [zeroAt EXCEPT !.user = TRUE] ELSE zeroAt
  /\ UNCHANGED <<candidate, currentQuestion, timeLeft, isSubmitting,
                 interviewStarted, isGeneratingQuestions, isScoringAnswers,
                 isVoiceRecording, timerRef, autoSubmitRef, timeout0, timeout100,
                 effectDue, generating, scoring, scoringRequests>>
  /\ UNCHANGED <<questionStartTime, answerTimesRef, now>>
  /\ UNCHANGED <<reloads, uploadedFile, uploads, clears>>
  /\ UNCHANGED <<profileVars, voiceVars, interviewSessions, fallback>>
  /\ autoSaveEffect

\* Submit button onClick={handleSubmitAnswer}, with the handler of the
\* render on screen
ManualSubmit ==
  /\ InputMoment
  /\ SubmitEnabled
  /\ Len(candidate.answers) < MaxAnswers
  /\ handleSubmitAnswer(Closure)
  /\ lastEvent' = IF Proceeds(Closure) THEN "manual" ELSE "manualIgnored"
  /\ zeroAt' = IF zeroAt.on THEN [zeroAt EXCEPT !.manual = TRUE, !.user = TRUE] ELSE zeroAt
  /\ UNCHANGED <<interviewStarted, isGeneratingQuestions, isVoiceRecording,
                 timeout0, timeout100, effectDue, generating>>
  /\ UNCHANGED now
  /\ UNCHANGED <<reloads, uploadedFile, uploads, clears>>
  /\ remountVoiceRecorder
  /\ UNCHANGED <<profileVars, interviewSessions, fallback>>
  /\ autoSaveEffect

\* VoiceRecorder: recognition.onstart -> onRecordingStateChange(true)
StartVoice ==
  /\ InputMoment
  /\ QuestionShown
  /\ ~isSubmitting
  /\ ~isVoiceRecording
  /\ isVoiceRecording' = TRUE
  /\ lastEvent' = "voiceOn"
  /\ zeroAt' = IF zeroAt.on THEN [zeroAt EXCEPT !.user = TRUE] ELSE zeroAt
  /\ UNCHANGED <<candidate, currentQuestion, answerText, timeLeft, isSubmitting,
                 interviewStarted, isGeneratingQuestions, isScoringAnswers,
                 timerRef, autoSubmitRef, timeout0, timeout100, effectDue,
                 generating, scoring, scoringRequests>>
  /\ UNCHANGED <<questionStartTime, answerTimesRef, now>>
  /\ UNCHANGED <<reloads, uploadedFile, uploads, clears>>
  /\ UNCHANGED <<profileVars, voiceVars, interviewSessions, fallback>>
  /\ autoSaveEffect

\* VoiceRecorder: recognition.onend -> onRecordingStateChange(false); the
\* event is delivered asynchronously, after stop() or when recognition ends
VoiceEnded ==
  /\ InputMoment
  /\ isVoiceRecording
  /\ isVoiceRecording' = FALSE
  /\ lastEvent' = "voiceOff"
  /\ zeroAt' = IF zeroAt.on THEN [zeroAt EXCEPT !.user = TRUE] ELSE zeroAt
  /\ UNCHANGED <<candidate, currentQuestion, answerText, timeLeft, isSubmitting,
                 interviewStarted, isGeneratingQuestions, isScoringAnswers,
                 timerRef, autoSubmitRef, timeout0, timeout100, effectDue,
                 generating, scoring, scoringRequests>>
  /\ UNCHANGED <<questionStartTime, answerTimesRef, now>>
  /\ UNCHANGED <<reloads, uploadedFile, uploads, clears>>
  /\ UNCHANGED <<profileVars, voiceVars, interviewSessions, fallback>>
  /\ autoSaveEffect

Remove(seq, k) == [i \in 1..(Len(seq) - 1) |-> IF i < k THEN seq[i] ELSE seq[i + 1]]

\* VoiceRecorder: recognition.onresult, then the effect on the transcript
Hear ==
  /\ isVoiceRecording
  /\ QuestionShown
  /\ timerRef.on
  /\ timeLeft \in HearMoments
  /\ transcript = 0
  /\ transcript' = Spoken(currentQuestion)
  /\ IF timeLeft <= 1
     THEN /\ Len(stopTimeouts) < MaxStopTimeouts
          /\ stopTimeouts' = handleStopRecording(FALSE)
     ELSE UNCHANGED stopTimeouts
  /\ lastEvent' = "hear"
  /\ UNCHANGED <<candidate, currentQuestion, answerText, timeLeft, isSubmitting,
                 interviewStarted, isGeneratingQuestions, isScoringAnswers,
                 isVoiceRecording, timerRef, autoSubmitRef, timeout0, timeout100,
                 effectDue, generating, scoring, scoringRequests, zeroAt>>
  /\ UNCHANGED <<questionStartTime, answerTimesRef, now>>
  /\ UNCHANGED <<reloads, uploadedFile, uploads, clears>>
  /\ UNCHANGED <<profileVars, interviewSessions, fallback>>
  /\ autoSaveEffect

\* the 500 ms timeout of handleStopRecording:
\* onTranscriptionComplete(fullTranscript.trim()) -> setAnswerText(text)
TranscriptionComplete ==
  /\ \E k \in 1..Len(stopTimeouts) :
       /\ stopTimeouts[k].atTick
            => ~timeout0.on /\ ~timeout100.on /\ ~effectDue
       /\ answerText' = stopTimeouts[k].text
       /\ stopTimeouts' = Remove(stopTimeouts, k)
  /\ lastEvent' = "transcribed"
  /\ UNCHANGED <<candidate, currentQuestion, timeLeft, isSubmitting,
                 interviewStarted, isGeneratingQuestions, isScoringAnswers,
                 isVoiceRecording, timerRef, autoSubmitRef, timeout0, timeout100,
                 effectDue, generating, scoring, scoringRequests, zeroAt>>
  /\ UNCHANGED <<questionStartTime, answerTimesRef, now>>
  /\ UNCHANGED <<reloads, uploadedFile, uploads, clears>>
  /\ UNCHANGED <<profileVars, transcript, interviewSessions, fallback>>
  /\ autoSaveEffect

(***************************************************************************)
(* The continuation behind `await scoreAnswers(scoringPayload)`.           *)
(***************************************************************************)
ScoreSucceeds ==
  /\ \E k \in 1..Len(scoring) :
       /\ scoring' = Remove(scoring, k)
       /\ \E s \in ServiceScores :
            candidate' = completeInterview(candidate, roundScore(s))
  /\ isScoringAnswers' = FALSE
  /\ isSubmitting' = FALSE
  /\ lastEvent' = "scoreOk"
  /\ UNCHANGED <<currentQuestion, answerText, timeLeft, interviewStarted,
                 isGeneratingQuestions, isVoiceRecording, timerRef, autoSubmitRef,
                 timeout0, timeout100, effectDue, generating, scoringRequests,
                 zeroAt>>
  /\ UNCHANGED <<questionStartTime, answerTimesRef, now>>
  /\ UNCHANGED <<reloads, uploadedFile, uploads, clears>>
  /\ UNCHANGED <<profileVars, voiceVars, interviewSessions, fallback>>
  /\ autoSaveEffect

ScoreFails ==
  /\ \E k \in 1..Len(scoring) :
       /\ scoring' = Remove(scoring, k)
       /\ candidate' = completeInterview(candidate, FallbackScore(scoring[k].allAnswers))
  /\ isScoringAnswers' = FALSE
  /\ isSubmitting' = FALSE
  /\ lastEvent' = "scoreFail"
  /\ UNCHANGED <<currentQuestion, answerText, timeLeft, interviewStarted,
                 isGeneratingQuestions, isVoiceRecording, timerRef, autoSubmitRef,
                 timeout0, timeout100, effectDue, generating, scoringRequests,
                 zeroAt>>
  /\ UNCHANGED <<questionStartTime, answerTimesRef, now>>
  /\ UNCHANGED <<reloads, uploadedFile, uploads, clears>>
  /\ UNCHANGED <<profileVars, voiceVars, interviewSessions, fallback>>
  /\ autoSaveEffect

(***************************************************************************)
(* Page reload: the component state, the refs, the timers and the calls in *)
(* flight are gone, the persisted store is rehydrated, and the restore     *)
(* effect of the mount runs.                                               *)
(***************************************************************************)
\* a restore that only resumes a session without answers
Restorable_first ==
  /\ candidate.startedAt
  /\ candidate.questionsDefined
  /\ candidate.questionIndex = 0
  /\ candidate.questionIndex < Len(candidate.generatedQuestions)
  /\ ~candidate.isComplete

Restorable ==
  /\ candidate.startedAt
  /\ candidate.questionsDefined
  /\ candidate.questionIndex < Len(candidate.generatedQuestions)
  /\ ~candidate.isComplete

Reload ==
  /\ InputMoment
  /\ reloads < MaxReloads
  /\ reloads' = reloads + 1
  /\ answerText' = 0
  /\ isSubmitting' = FALSE
  /\ isGeneratingQuestions' = FALSE
  /\ isScoringAnswers' = FALSE
  /\ isVoiceRecording' = FALSE
  /\ autoSubmitRef' = FALSE
  /\ timeout0' = Idle
  /\ timeout100' = Idle
  /\ effectDue' = FALSE
  /\ generating' = Idle
  /\ scoring' = <<>>
  /\ zeroAt' = ZeroNone
  /\ lastEvent' = "reload"
  /\ IF Restorable
     THEN LET question == candidate.generatedQuestions[candidate.questionIndex + 1]
          IN /\ currentQuestion' = question.id
             /\ interviewStarted' = TRUE
             \* startTimer, at the origin of the new page's clock
             /\ timeLeft' = getTimeLimit(question.difficulty)
             /\ questionStartTime' = 0
             /\ timerRef' = Armed([NoClosure EXCEPT !.cand = candidate])
     ELSE /\ currentQuestion' = 0
          /\ interviewStarted' = FALSE
          /\ timeLeft' = 0
          /\ questionStartTime' = 0
          /\ timerRef' = Idle
  /\ uploadedFile' = FALSE
  /\ answerTimesRef' = NoTimes
  /\ now' = 0
  /\ autoSave(candidate)
  /\ missingFields' = {}
  /\ transcript' = 0
  /\ stopTimeouts' = <<>>
  /\ UNCHANGED <<candidate, scoringRequests, uploads, clears>>
  /\ UNCHANGED <<activeTab, interviewSessions, fallback>>

(***************************************************************************)
(* ResumeUpload.handleUpload, and the dispatches of clearCandidate:        *)
(* Clear Session (InterviewerPage), Start Fresh (WelcomeBackModal) and     *)
(* Remove (ResumeUpload.handleRemoveFile).  InterviewChat stays mounted.   *)
(***************************************************************************)
\* validateMandatoryFields
validateMandatoryFields(profile) ==
  {f \in {"name", "email", "phone"} : trim(profile[f]) = ""}

handleUpload(extracted) ==
  /\ InputMoment
  /\ ~uploadedFile
  /\ uploads < MaxUploads
  /\ uploads' = uploads + 1
  /\ candidate' = setProfile([candidate EXCEPT !.id = uploads + 1], extracted)
  /\ uploadedFile' = TRUE
  /\ missingFields' = validateMandatoryFields(extracted)
  /\ lastEvent' = "upload"
  /\ zeroAt' = IF zeroAt.on THEN [zeroAt EXCEPT !.user = TRUE, !.manual = TRUE] ELSE zeroAt
  /\ autoSaveEffect
  /\ UNCHANGED <<currentQuestion, answerText, timeLeft, isSubmitting,
                 interviewStarted, isGeneratingQuestions, isScoringAnswers,
                 isVoiceRecording, timerRef, autoSubmitRef, timeout0, timeout100,
                 effectDue, generating, scoring, scoringRequests,
                 questionStartTime, answerTimesRef, now, reloads, clears>>
  /\ UNCHANGED <<activeTab, voiceVars, interviewSessions, fallback>>

\* the upload of a resume whose mandatory fields were all extracted, by a
\* user who returns to the Interview tab
UploadResume == handleUpload(CompleteProfile)

\* clearCandidate, with or without the reset of ResumeUpload's own state
\* (handleRemoveFile)
ClearCandidate ==
  /\ InputMoment
  /\ clears < MaxClears
  /\ clears' = clears + 1
  /\ candidate' = clearCandidate(candidate)
  /\ \E remove \in {b \in BOOLEAN : b => uploadedFile} :
       /\ uploadedFile' = (uploadedFile /\ ~remove)
       /\ missingFields' = IF remove THEN {} ELSE missingFields
  /\ lastEvent' = "clear"
  /\ zeroAt' = IF zeroAt.on THEN [zeroAt EXCEPT !.user = TRUE, !.manual = TRUE] ELSE zeroAt
  /\ autoSaveEffect
  /\ UNCHANGED <<currentQuestion, answerText, timeLeft, isSubmitting,
                 interviewStarted, isGeneratingQuestions, isScoringAnswers,
                 isVoiceRecording, timerRef, autoSubmitRef, timeout0, timeout100,
                 effectDue, generating, scoring, scoringRequests,
                 questionStartTime, answerTimesRef, now, reloads, uploads>>
  /\ UNCHANGED <<activeTab, voiceVars, interviewSessions, fallback>>

Next ==
  \/ StartClick
  \/ GenerateFails
  \/ GenerateEmpty
  \/ GenerateQuestions
  \/ Tick
  \/ Fire0
  \/ SafetyNetEffect
  \/ Fire100
  \/ TypeAnswer
  \/ ManualSubmit
  \/ StartVoice
  \/ VoiceEnded
  \/ ScoreSucceeds
  \/ ScoreFails
  \/ Reload

Spec == Init /\ [][Next]_vars

\* one page load: the session together with the operations that replace
\* the candidate
NextCandidate ==
  \/ StartClick
  \/ GenerateFails
  \/ GenerateEmpty
  \/ GenerateQuestions
  \/ Tick
  \/ Fire0
  \/ SafetyNetEffect
  \/ Fire100
  \/ TypeAnswer
  \/ ManualSubmit
  \/ StartVoice
  \/ VoiceEnded
  \/ ScoreSucceeds
  \/ ScoreFails
  \/ UploadResume
  \/ ClearCandidate

CandidateSpec == Init /\ [][NextCandidate]_vars

\* the session with the results of the speech recogniser
NextVoice ==
  \/ StartClick
  \/ GenerateQuestions
  \/ Tick
  \/ Fire0
  \/ SafetyNetEffect
  \/ Fire100
  \/ ManualSubmit
  \/ StartVoice
  \/ Hear
  \/ VoiceEnded
  \/ TranscriptionComplete
  \/ ScoreSucceeds
  \/ ScoreFails

VoiceSpec == Init /\ [][NextVoice]_vars

(***************************************************************************)
(* The Interviewee page from its first load: the Resume Upload tab with    *)
(* the profile form, and the Interview tab.                                *)
(***************************************************************************)
InitProfile ==
  /\ InitInterviewChat
  /\ candidate = initialState
  /\ uploadedFile = FALSE
  /\ uploads = 0
  /\ activeTab = "resume"
  /\ missingFields = {}
  /\ InitStorage
  /\ InitServer
  /\ fallback = NoFallback

UploadAnyResume ==
  /\ activeTab = "resume"
  /\ \E extracted \in Profiles : handleUpload(extracted)

\* Form onFinish={handleSaveProfile}: the form's `required` rules let the
\* values through when no field is the empty string
SaveProfile ==
  /\ activeTab = "resume"
  /\ candidate.profile
  /\ missingFields = {}
  /\ \E values \in Profiles :
       /\ values.name # "" /\ values.email # "" /\ values.phone # ""
       /\ missingFields' = validateMandatoryFields(values)
       /\ IF validateMandatoryFields(values) # {}
          THEN UNCHANGED candidate
          ELSE candidate' = setProfile(candidate, values)
  /\ lastEvent' = "saveProfile"
  /\ autoSaveEffect
  /\ UNCHANGED <<currentQuestion, answerText, timeLeft, isSubmitting,
                 interviewStarted, isGeneratingQuestions, isScoringAnswers,
                 isVoiceRecording, timerRef, autoSubmitRef, timeout0, timeout100,
                 effectDue, generating, scoring, scoringRequests, zeroAt,
                 questionStartTime, answerTimesRef, now, reloads, uploadedFile,
                 uploads, clears>>
  /\ UNCHANGED <<activeTab, voiceVars, interviewSessions, fallback>>

\* Tabs onChange={setActiveTab}; the Interview tab is disabled while
\* !candidate.isProfileComplete
SelectTab ==
  /\ \E key \in {"resume", "interview"} :
       /\ key # activeTab
       /\ key = "interview" => candidate.isProfileComplete
       /\ activeTab' = key
  /\ lastEvent' = "selectTab"
  /\ UNCHANGED <<candidate, currentQuestion, answerText, timeLeft, isSubmitting,
                 interviewStarted, isGeneratingQuestions, isScoringAnswers,
                 isVoiceRecording, timerRef, autoSubmitRef, timeout0, timeout100,
                 effectDue, generating, scoring, scoringRequests, zeroAt,
                 questionStartTime, answerTimesRef, now, reloads, uploadedFile,
                 uploads, clears>>
  /\ UNCHANGED <<missingFields, voiceVars, interviewSessions, fallback>>
  /\ autoSaveEffect

\* the Start Interview button of ResumeUpload: onStartInterview
StartInterviewButton ==
  /\ activeTab = "resume"
  /\ candidate.profile
  /\ missingFields = {}
  /\ candidate.isProfileComplete
  /\ activeTab' = "interview"
  /\ lastEvent' = "startInterviewButton"
  /\ UNCHANGED <<candidate, currentQuestion, answerText, timeLeft, isSubmitting,
                 interviewStarted, isGeneratingQuestions, isScoringAnswers,
                 isVoiceRecording, timerRef, autoSubmitRef, timeout0, timeout100,
                 effectDue, generating, scoring, scoringRequests, zeroAt,
                 questionStartTime, answerTimesRef, now, reloads, uploadedFile,
                 uploads, clears>>
  /\ UNCHANGED <<missingFields, voiceVars, interviewSessions, fallback>>
  /\ autoSaveEffect

NextProfile ==
  \/ UploadAnyResume
  \/ SaveProfile
  \/ ClearCandidate
  \/ SelectTab
  \/ StartInterviewButton
  \/ StartClick
  \/ GenerateFails
  \/ GenerateEmpty
  \/ GenerateQuestions

ProfileSpec == InitProfile /\ [][NextProfile]_vars

(***************************************************************************)
(* The saved interviews, as the operations of utils/interviewStorage.ts.   *)
(***************************************************************************)
SavedScores == {0, 50, 100}

SavedAnswerLists ==
  {<<>>, <<[questionId |-> 1, answer |-> 1]>>,
   <<[questionId |-> 1, answer |-> Sentinel]>>}

\* the interviews handed to saveInterviewToStorage
CandidateStates ==
  {[initialState EXCEPT !.finalScore = score, !.answers = as, !.isComplete = TRUE] :
     score \in SavedScores, as \in SavedAnswerLists}

getSavedInterviewIds == savedIds

RECURSIVE storedOf(_, _)
storedOf(ids, store) ==
  IF ids = <<>> THEN <<>>
  ELSE IF store[Head(ids)].saved
       THEN <<[id |-> Head(ids), interview |-> store[Head(ids)]]>>
              \o storedOf(Tail(ids), store)
       ELSE storedOf(Tail(ids), store)

\* the entries in the order of the list; the sort by savedAt is left out
getSavedInterviews == storedOf(savedIds, savedInterviews)

SaveInterview ==
  /\ \E interviewId \in DOMAIN savedInterviews, candidateState \in CandidateStates :
       /\ savedInterviews' = saveInterviewToStorage(savedInterviews, interviewId,
                                 createSavedInterviewFromState(candidateState))
       /\ savedIds' = pushSavedId(getSavedInterviewIds, interviewId)
  /\ lastEvent' = "saveInterview"
  /\ UNCHANGED <<pageVars, interviewSessions, fallback>>

deleteSavedInterview(interviewId) ==
  /\ savedInterviews' = [savedInterviews EXCEPT ![interviewId] = NoRecord]
  /\ savedIds' = SelectSeq(getSavedInterviewIds, LAMBDA id : id # interviewId)

DeleteSavedInterview ==
  /\ \E interviewId \in DOMAIN savedInterviews : deleteSavedInterview(interviewId)
  /\ lastEvent' = "deleteSavedInterview"
  /\ UNCHANGED <<pageVars, interviewSessions, fallback>>

ClearAllSavedInterviews ==
  /\ savedInterviews' =
       [id \in DOMAIN savedInterviews |->
          IF \E i \in 1..Len(getSavedInterviewIds) : getSavedInterviewIds[i] = id
          THEN NoRecord ELSE savedInterviews[id]]
  /\ savedIds' = <<>>
  /\ lastEvent' = "clearAllSavedInterviews"
  /\ UNCHANGED <<pageVars, interviewSessions, fallback>>

NextStorage ==
  \/ SaveInterview
  \/ DeleteSavedInterview
  \/ ClearAllSavedInterviews

StorageSpec == Init /\ [][NextStorage]_vars

(***************************************************************************)
(* The backend: POST /api/candidates/:id/start and .../answer.             *)
(***************************************************************************)
PostStart ==
  /\ \E candidateId \in BackendCandidates :
       interviewSessions' =
         [interviewSessions EXCEPT ![candidateId] =
            [exists |-> TRUE, currentQuestionIndex |-> 0, answers |-> <<>>,
             isComplete |-> FALSE]]
  /\ UNCHANGED <<browserVars, fallback>>

\* the requests answered with 400 or 404 change nothing
PostAnswer ==
  /\ \E candidateId \in BackendCandidates, questionIdx \in RequestIndexes,
        taken \in RequestTimes :
       LET session == interviewSessions[candidateId]
       IN IF questionIdx = Null \/ questionIdx < 0 \/ questionIdx >= Len(QUESTIONS)
             \/ ~session.exists
          THEN UNCHANGED interviewSessions
          ELSE LET question == QUESTIONS[questionIdx + 1]
                   answer == [questionIndex |-> questionIdx,
                              timeTaken |-> IF taken # 0 THEN taken
                                            ELSE question.timeLimit]
               IN /\ Len(session.answers) < MaxStoredAnswers
                  /\ interviewSessions' =
                       [interviewSessions EXCEPT ![candidateId] =
                          [session EXCEPT
                             !.answers = Append(@, answer),
                             !.currentQuestionIndex = questionIdx + 1,
                             !.isComplete = (@ \/ questionIdx = Len(QUESTIONS) - 1)]]
  /\ UNCHANGED <<browserVars, fallback>>

NextBackend ==
  \/ PostStart
  \/ PostAnswer

BackendSpec == Init /\ [][NextBackend]_vars

(***************************************************************************)
(* The fallback score, applied to two lists of answers.                    *)
(***************************************************************************)
InitFallback ==
  /\ InitPage
  /\ InitStorage
  /\ InitServer
  /\ \E a \in FallbackLists, b \in FallbackLists :
       fallback = [NoFallback EXCEPT !.a = a, !.b = b]

ScoreFallbackA ==
  /\ fallback.scoreA = Null
  /\ fallback' = [fallback EXCEPT !.scoreA = FallbackScore(fallback.a)]
  /\ UNCHANGED <<browserVars, interviewSessions>>

ScoreFallbackB ==
  /\ fallback.scoreB = Null
  /\ fallback' = [fallback EXCEPT !.scoreB = FallbackScore(fallback.b)]
  /\ UNCHANGED <<browserVars, interviewSessions>>

NextFallback ==
  \/ ScoreFallbackA
  \/ ScoreFallbackB

FallbackSpec == InitFallback /\ [][NextFallback]_vars

(***************************************************************************)
(* Fairness: a timer that is due fires, an effect that is due runs, a      *)
(* network call in flight settles.  The user is not obliged to act.        *)
(***************************************************************************)
FairSpec ==
  /\ Init /\ [][Next]_vars
  /\ WF_vars(Tick)
  /\ WF_vars(Fire0)
  /\ WF_vars(SafetyNetEffect)
  /\ WF_vars(Fire100)
  /\ WF_vars(GenerateFails \/ GenerateEmpty \/ GenerateQuestions)
  /\ WF_vars(ScoreSucceeds \/ ScoreFails)

(***************************************************************************)
(* Shorthands of the properties.                                           *)
(***************************************************************************)
answers == candidate.answers
questionIndex == candidate.questionIndex
generatedQuestions == candidate.generatedQuestions

Started == candidate.startedAt /\ candidate.questionsDefined /\ Len(generatedQuestions) >= 1

Settled == ~timeout0.on /\ ~timeout100.on /\ ~effectDue

Quiescent == Settled /\ ~timerRef.on /\ ~generating.on /\ scoring = <<>>

\* C1: after every operation the number of recorded answers equals the
\* question index, and no question has more than one recorded answer.
C1_OneAnswerPerQuestion ==
  /\ Len(answers) = questionIndex
  /\ \A i, j \in 1..Len(answers) :
       i < j => answers[i].questionId # answers[j].questionId

\* C2: when a countdown reached zero and both the interval's deferred submit
\* and the safety net's deferred submit were scheduled for it, then once both
\* have run exactly one answer has been recorded and the index has advanced
\* by exactly one.
C2_ExpiryRecordsOnce ==
  (zeroAt.on /\ zeroAt.both /\ ~zeroAt.manual /\ Settled)
    => /\ Len(answers) = zeroAt.len + 1
       /\ questionIndex = zeroAt.index + 1

\* C3: answers are parallel to the questions: answers[i] is the answer to
\* questions[i].
C3_AnswersInQuestionOrder ==
  \A i \in 1..Len(answers) :
    /\ i <= Len(generatedQuestions)
    /\ answers[i].questionId = generatedQuestions[i].id

\* C4: once every question has an answer the session reaches Complete: when
\* nothing is left to run (no timer, no deferred submit, no call in flight)
\* and every question has an answer, isComplete is true.
C4_AllAnsweredLeadsToComplete ==
  (Started /\ Len(answers) >= Len(generatedQuestions) /\ Quiescent)
    => candidate.isComplete

\* C5: one scoring request per session, sent when the list of recorded
\* answers is full, with one entry per question in question order carrying
\* the answer recorded for that question.
C5_ScoringHandoff ==
  /\ Len(scoringRequests) <= 1
  /\ \A r \in 1..Len(scoringRequests) :
       LET req == scoringRequests[r]
       IN /\ Len(req.interview_data) = Len(generatedQuestions)
          /\ Len(req.recorded) = Len(generatedQuestions)
          /\ \A k \in 1..Len(req.interview_data) :
               /\ req.interview_data[k].question_id = generatedQuestions[k].id
               /\ k <= Len(req.recorded)
               /\ req.recorded[k].questionId = generatedQuestions[k].id
               /\ req.interview_data[k].answer = req.recorded[k].answer

\* C6: a question generation that fails or returns no question leaves the
\* session not started: the store is unchanged, no timer is armed and the
\* start card is shown again.
C6_FailedStartLeavesNotStarted ==
  [][lastEvent' \in {"genFail", "genEmpty"}
       => /\ candidate' = candidate
          /\ ~timerRef'.on
          /\ StartCardShown']_vars

\* C7: a manual submit that recorded an answer is never directly followed
\* by a second manual submit that records another answer.
C7_DoubleSubmitRecordsOnce ==
  [][~(lastEvent = "manual" /\ lastEvent' = "manual")]_vars

\* C8: once the countdown of the question on display has reached zero and the
\* submits it deferred have run, with no input of the user in between, an
\* answer to that question is recorded and the question is no longer on
\* display.
C8_ExpiryLeavesQuestion ==
  (zeroAt.on /\ ~zeroAt.user /\ Settled)
    => /\ currentQuestion # zeroAt.q
       /\ \E i \in 1..Len(answers) : answers[i].questionId = zeroAt.q

\* C9: within a session the question index never decreases, and it grows by
\* exactly one with every answer that is recorded.
C9_MonotonicIndex ==
  [][lastEvent' \notin {"genOk", "genEmpty"}
       => /\ questionIndex' >= questionIndex
          /\ (Len(answers') # Len(answers)
                => Len(answers') = Len(answers) + 1 /\ questionIndex' = questionIndex + 1)
          /\ (questionIndex' # questionIndex
                => questionIndex' = questionIndex + 1 /\ Len(answers') = Len(answers) + 1)]_vars

\* reached: two answers were recorded, one typed and submitted by hand, one
\* recorded by an expired countdown with nothing typed
C9_Witness ==
  /\ questionIndex = 2
  /\ Len(answers) = 2
  /\ \E i, j \in 1..Len(answers) :
       answers[i].answer = Sentinel /\ answers[j].answer > 0

\* C10: in a started session isComplete holds exactly when the question
\* index equals the number of generated questions.
C10_CompleteIffAllAnswered ==
  Started => (candidate.isComplete <=> questionIndex = Len(generatedQuestions))

SubmitEvents ==
  {"manual", "manualIgnored", "auto0", "auto0Ignored", "auto100", "auto100Ignored"}

ExpiryRecorded == {"auto0", "auto100"}

AwaitingAnswer ==
  Started /\ questionIndex < Len(generatedQuestions) /\ ~candidate.isComplete

\* C11: Complete is terminal: once isComplete is true no operation of the
\* session changes the questions, the answers or the question index, and no
\* second completeInterview sets the final score again.
C11_CompleteIsTerminal ==
  [][candidate.isComplete
       => /\ generatedQuestions' = generatedQuestions
          /\ answers' = answers
          /\ questionIndex' = questionIndex
          /\ lastEvent' \notin {"scoreOk", "scoreFail"}]_vars

\* C12: an answer recorded by an expired countdown carries the text staged
\* at that moment if there is any and the sentinel otherwise; an answer
\* recorded by a click on Submit is never the sentinel.
C12_ExpiryTextOrSentinel ==
  [][/\ lastEvent' \in ExpiryRecorded
          => answers'[Len(answers')].answer
               = (IF answerText # 0 THEN answerText ELSE Sentinel)
     /\ lastEvent' = "manual"
          => answers'[Len(answers')].answer # Sentinel]_vars

\* C13: when an expired countdown records the answer of the question on
\* display, the time stored for that question is the question's time limit.
C13_ExpiryTimeIsLimit ==
  [][(lastEvent' \in ExpiryRecorded /\ currentQuestion \in 1..Len(generatedQuestions))
       => answerTimesRef'[currentQuestion]
            = getTimeLimit(generatedQuestions[currentQuestion].difficulty)]_vars

\* C14: every stored time taken lies between 0 and the time limit of its
\* question, in the ref and in every scoring payload sent.
C14_TimeTakenWithinLimit ==
  /\ \A i \in 1..Len(generatedQuestions) :
       /\ answerTimesRef[i] >= 0
       /\ answerTimesRef[i] <= getTimeLimit(generatedQuestions[i].difficulty)
  /\ \A r \in 1..Len(scoringRequests) :
       \A k \in 1..Len(scoringRequests[r].interview_data) :
         LET e == scoringRequests[r].interview_data[k]
         IN e.time_taken >= 0 /\ e.time_taken <= e.max_time_allowed

\* C15: in every complete session the final score is a whole number between
\* 0 and 100.
C15_FinalScoreInRange ==
  candidate.isComplete => candidate.finalScore \in 0..100

\* reached: the scoring call failed and the fallback score was cut to 100
C15_Witness ==
  /\ lastEvent = "scoreFail"
  /\ candidate.isComplete
  /\ candidate.finalScore = 100

\* C16: a countdown is armed only while a started session awaits an answer,
\* and it is the countdown of the question at the current index.
C16_TimerOfCurrentQuestion ==
  timerRef.on
    => /\ AwaitingAnswer
       /\ scoring = <<>>
       /\ currentQuestion = generatedQuestions[questionIndex + 1].id

\* C17: clearing the candidate stops the countdown, and no deferred submit
\* of the discarded session records an answer or advances the index in the
\* state that follows.
C17_ClearStopsCountdown ==
  [][/\ lastEvent' = "clear"
          => ~timerRef'.on /\ ~timeout0'.on /\ ~timeout100'.on
     /\ (~candidate.startedAt /\ lastEvent' \in SubmitEvents)
          => answers' = answers /\ questionIndex' = questionIndex]_vars

\* C18: a reload while the session awaits the answer to question i resumes
\* at index i with the same questions and answers, shows question i and arms
\* a countdown of the full time limit of question i.
C18_ReloadResumes ==
  [][(lastEvent' = "reload" /\ AwaitingAnswer)
       => /\ candidate' = candidate
          /\ interviewStarted'
          /\ currentQuestion' = generatedQuestions[questionIndex + 1].id
          /\ timerRef'.on
          /\ timeLeft' = getTimeLimit(generatedQuestions[questionIndex + 1].difficulty)]_vars

\* reached: a session with one answer was reloaded and waits for the second
C18_Witness ==
  /\ lastEvent = "reload"
  /\ questionIndex = 1
  /\ Len(answers) = 1
  /\ currentQuestion = 2
  /\ timerRef.on
  /\ timeLeft = 20

\* C19: a submit that arrives when the session is complete, or when no
\* question is on display, or when the index is past the last question,
\* changes neither the store nor the timer.
C19_LateSubmitIsNoOp ==
  [][((candidate.isComplete \/ currentQuestion = 0
         \/ questionIndex >= Len(generatedQuestions))
        /\ lastEvent' \in SubmitEvents)
       => candidate' = candidate /\ timerRef' = timerRef]_vars

\* C20: the session is written to the saved interviews when it becomes
\* complete, and no write replaces a record already saved under its id.
C20_ArchivedOnce ==
  [][/\ (candidate'.isComplete /\ ~candidate.isComplete) => autoSaved'
     /\ autoSaved' => ~savedInterviews[candidate'.id].saved]_vars

\* C21: while the question generation is in flight no further start request
\* begins a second generation or replaces the question list, and while the
\* scoring call is in flight no submit records an answer or advances the
\* index.
C21_NoOverlap ==
  [][/\ generating.on
          => /\ lastEvent' # "startClick"
             /\ (generating'.on => generating' = generating)
             /\ (lastEvent' \notin {"genOk", "genEmpty", "reload"}
                   => generatedQuestions' = generatedQuestions)
     /\ (scoring # <<>> /\ lastEvent' \in SubmitEvents)
          => answers' = answers /\ questionIndex' = questionIndex]_vars

C23_IndexWithinQuestions ==
  questionIndex >= 0 /\ questionIndex <= Len(generatedQuestions)

\* C28: a page reload that happens when the last answer is recorded and the
\* scoring has not finished still leads to a complete session with a final
\* score: after such a reload, when nothing is left to run, the session is
\* complete and has a score.
C28_ReloadDuringScoringCompletes ==
  (reloads >= 1 /\ Started /\ questionIndex = Len(generatedQuestions)
     /\ scoringRequests # <<>> /\ Quiescent)
    => candidate.isComplete /\ candidate.finalScore # Null

\* C24: the fallback score is a function of the answers only, it does not
\* decrease when the average answer length increases, and it lies between 0
\* and 100.
C24_FallbackMonotoneInRange ==
  (fallback.scoreA # Null /\ fallback.scoreB # Null)
    => /\ fallback.scoreA \in 0..100
       /\ fallback.scoreB \in 0..100
       /\ fallback.a = fallback.b => fallback.scoreA = fallback.scoreB
       /\ SumLen(fallback.a) * Len(fallback.b) <= SumLen(fallback.b) * Len(fallback.a)
            => fallback.scoreA <= fallback.scoreB

\* reached: two lists of two answers were scored, the one with the longer
\* answers higher than the other and below the cut at 100
C24_Witness ==
  /\ Len(fallback.a) = 2
  /\ Len(fallback.b) = 2
  /\ SumLen(fallback.a) < SumLen(fallback.b)
  /\ fallback.scoreA # Null
  /\ fallback.scoreB # Null
  /\ fallback.scoreA < fallback.scoreB
  /\ fallback.scoreB < 100

\* C25: when the countdown of a question expires while the recorder holds a
\* transcript, the expiry records an answer to the question on display and
\* advances the index by one, and the recorded text is that transcript.
C25_ExpiryRecordsTranscript ==
  [][(lastEvent' \in ExpiryRecorded /\ transcript # 0)
       => /\ answers' = Append(answers, [questionId |-> currentQuestion,
                                         answer |-> transcript])
          /\ questionIndex' = questionIndex + 1]_vars

C27_TranscriptStaysWithQuestion ==
  [][/\ (lastEvent' = "transcribed" /\ currentQuestion' # 0)
          => answerText' = Spoken(currentQuestion')
     /\ (lastEvent' \in {"manual", "auto0", "auto100"}
           /\ answers'[Len(answers')].answer >= Spoken(0))
          => answers'[Len(answers')].answer
               = Spoken(answers'[Len(answers')].questionId)]_vars

\* C29: in the backend's session store every question index has at most one
\* stored answer, the answers are in question order, their number equals
\* currentQuestionIndex, and isComplete is true exactly when every question
\* has an answer.
C29_BackendSessionConsistent ==
  \A candidateId \in BackendCandidates :
    LET session == interviewSessions[candidateId]
    IN session.exists
         => /\ \A i, j \in 1..Len(session.answers) :
                 i < j => session.answers[i].questionIndex
                            # session.answers[j].questionIndex
            /\ \A i \in 1..Len(session.answers) :
                 session.answers[i].questionIndex = i - 1
            /\ Len(session.answers) = session.currentQuestionIndex
            /\ session.isComplete <=> Len(session.answers) = Len(QUESTIONS)

\* C30: the list of saved ids has no duplicate, every listed id has a stored
\* record, every stored record's id is listed, and getSavedInterviews
\* returns exactly one entry per stored record.
C30_SavedListMatchesRecords ==
  /\ \A i, j \in 1..Len(savedIds) : i < j => savedIds[i] # savedIds[j]
  /\ \A i \in 1..Len(savedIds) : savedInterviews[savedIds[i]].saved
  /\ \A id \in DOMAIN savedInterviews :
       savedInterviews[id].saved
         => \E i \in 1..Len(savedIds) : savedIds[i] = id
  /\ \A id \in DOMAIN savedInterviews :
       Cardinality({k \in 1..Len(getSavedInterviews) : getSavedInterviews[k].id = id})
         = IF savedInterviews[id].saved THEN 1 ELSE 0

\* reached: two interviews were saved and the first was deleted
C30_Witness ==
  /\ lastEvent = "deleteSavedInterview"
  /\ savedIds = <<2>>
  /\ savedInterviews[2].saved
  /\ ~savedInterviews[1].saved
  /\ Len(getSavedInterviews) = 1

====
